---- MODULE Spec2Model ----
\* Input-handler state machine (input_handlers.py) and dungeon generator
\* (procgen.py) of the roguelike, as state machines.
EXTENDS Integers, Sequences, FiniteSets, TLC

\* ---------------------------------------------------------------------
\* Bounds of the model
\* ---------------------------------------------------------------------
\* game map of the handler machine: MapWidth x MapHeight tiles
MapWidth == 3
MapHeight == 2
\* messages already in the log when the session starts: 0..MaxLog
MaxLog == 12
\* messages the handlers may add to the log before the model stops adding
MaxAdded == 1
\* distinct items that exist in the world
MaxItems == 2
\* the dungeon generator's parameters: a GenMapWidth x GenMapHeight grid,
\* room sides 1..MaxRoomSize
GenMapWidth == 7
GenMapHeight == 3
MaxRoomSize == 2
\* as many attempts as rooms fit in a row of the grid when one has side 2
\* and the others side 1
MaxRooms == (GenMapWidth - 1) \div 2
\* tunnel_between on its own: the points have coordinates 0..TunnelSpan
TunnelSpan == 3

\* ---------------------------------------------------------------------
\* tcod.event.KeySym values (SDL key codes) of the keys the handlers name
\* ---------------------------------------------------------------------
K_RETURN == 13
K_ESCAPE == 27
K_PERIOD == 46
K_SLASH == 47
K_a == 97
K_b == 98
K_d == 100
K_g == 103
K_h == 104
K_i == 105
K_j == 106
K_k == 107
K_l == 108
K_n == 110
K_u == 117
K_v == 118
K_y == 121
\* keys only the inventory reads, by their offset from "a": "c", and the two
\* codes after "z" (offsets 26 and 27)
K_c == K_a + 2
K_LEFTBRACE == K_a + 26
K_PIPE == K_a + 27
K_RIGHT == 1073741903
K_LEFT == 1073741904
K_DOWN == 1073741905
K_UP == 1073741906
K_HOME == 1073741898
K_PAGEUP == 1073741899
K_END == 1073741901
K_PAGEDOWN == 1073741902
K_KP_ENTER == 1073741912
K_KP_1 == 1073741913
K_KP_2 == 1073741914
K_KP_3 == 1073741915
K_KP_4 == 1073741916
K_KP_5 == 1073741917
K_KP_6 == 1073741918
K_KP_7 == 1073741919
K_KP_8 == 1073741920
K_KP_9 == 1073741921
K_CLEAR == 1073741980
K_LCTRL == 1073742048
K_LSHIFT == 1073742049
K_LALT == 1073742050
K_RCTRL == 1073742052
K_RSHIFT == 1073742053
K_RALT == 1073742054

\* tcod.event.Modifier bits, the bits of a key event's modifier bitmask
KMOD_LSHIFT == 1
KMOD_RSHIFT == 2
KMOD_LCTRL == 64
KMOD_RCTRL == 128
KMOD_LALT == 256
KMOD_RALT == 512

MOVE_KEYS ==
    (K_UP :> <<0, -1>>) @@ (K_DOWN :> <<0, 1>>) @@ (K_LEFT :> <<-1, 0>>) @@
    (K_RIGHT :> <<1, 0>>) @@ (K_HOME :> <<-1, -1>>) @@ (K_END :> <<-1, 1>>) @@
    (K_PAGEUP :> <<1, -1>>) @@ (K_PAGEDOWN :> <<1, 1>>) @@
    (K_KP_8 :> <<0, -1>>) @@ (K_KP_2 :> <<0, 1>>) @@ (K_KP_4 :> <<-1, 0>>) @@
    (K_KP_6 :> <<1, 0>>) @@ (K_KP_7 :> <<-1, -1>>) @@ (K_KP_1 :> <<-1, 1>>) @@
    (K_KP_9 :> <<1, -1>>) @@ (K_KP_3 :> <<1, 1>>) @@
    (K_k :> <<0, -1>>) @@ (K_j :> <<0, 1>>) @@ (K_h :> <<-1, 0>>) @@
    (K_l :> <<1, 0>>) @@ (K_y :> <<-1, -1>>) @@ (K_b :> <<-1, 1>>) @@
    (K_u :> <<1, -1>>) @@ (K_n :> <<1, 1>>)

WAIT_KEYS == {K_PERIOD, K_KP_5, K_CLEAR}

CONFIRM_KEYS == {K_RETURN, K_KP_ENTER}

CURSOR_Y_KEYS ==
    (K_UP :> -1) @@ (K_DOWN :> 1) @@ (K_PAGEUP :> -10) @@ (K_PAGEDOWN :> 10)

MODIFIER_KEYS == {K_LSHIFT, K_RSHIFT, K_LCTRL, K_RCTRL, K_LALT, K_RALT}

\* the key symbols an event may carry in the model: the eight arrow-block
\* keys, two vi movement keys, a numpad key, a wait key, a confirm key, two
\* pure modifiers, the command keys, and letters and the codes around "z"
\* that only the inventory reads
Keys ==
    {K_UP, K_DOWN, K_LEFT, K_RIGHT, K_HOME, K_END, K_PAGEUP, K_PAGEDOWN,
     K_k, K_b, K_KP_7, K_PERIOD, K_RETURN, K_LSHIFT, K_RALT,
     K_ESCAPE, K_SLASH, K_v, K_g, K_i, K_d, K_a, K_c, K_LEFTBRACE, K_PIPE}

\* the modifier bitmasks an event may carry in the model: nothing held, each
\* of the six shift/ctrl/alt bits alone, and combinations within a group,
\* across two groups and across all three
Mods ==
    {0, KMOD_LSHIFT, KMOD_RSHIFT, KMOD_LCTRL, KMOD_RCTRL, KMOD_LALT, KMOD_RALT,
     KMOD_LSHIFT + KMOD_RSHIFT, KMOD_LSHIFT + KMOD_LCTRL, KMOD_RSHIFT + KMOD_RCTRL,
     KMOD_LCTRL + KMOD_LALT, KMOD_LSHIFT + KMOD_RALT,
     KMOD_LSHIFT + KMOD_LCTRL + KMOD_LALT,
     KMOD_LSHIFT + KMOD_RSHIFT + KMOD_LCTRL + KMOD_RCTRL + KMOD_LALT + KMOD_RALT}

\* Python's & and | on non-negative integers
RECURSIVE BitAnd(_, _)
BitAnd(a, b) ==
    IF a = 0 \/ b = 0 THEN 0
    ELSE (IF a % 2 = 1 /\ b % 2 = 1 THEN 1 ELSE 0) + 2 * BitAnd(a \div 2, b \div 2)

RECURSIVE BitOr(_, _)
BitOr(a, b) ==
    IF a = 0 THEN b
    ELSE IF b = 0 THEN a
    ELSE (IF a % 2 = 1 \/ b % 2 = 1 THEN 1 ELSE 0) + 2 * BitOr(a \div 2, b \div 2)

Max(a, b) == IF a >= b THEN a ELSE b
Min(a, b) == IF a <= b THEN a ELSE b

\* ---------------------------------------------------------------------
\* State of the handler machine
\* ---------------------------------------------------------------------
VARIABLES
    handler,        \* engine.event_handler: the class of the active handler
    viewer,         \* the active HistoryViewer's fields (log_length, cursor)
    messages,       \* engine.message_log.messages, oldest first
    mouse_location, \* engine.mouse_location
    player,         \* (engine.player.x, engine.player.y)
    inventory,      \* engine.player.inventory.items, in insertion order
    world_items,    \* the items that exist in the world (fixed by Init)
    width,          \* engine.game_map.width
    height,         \* engine.game_map.height
    running,        \* FALSE once SystemExit was raised
    last,           \* the last event: its kind and key, the handler it went to
                    \* (on), the active handler after dispatch, the action
                    \* returned, what perform() did, the calls handle_action
                    \* made, the value it returned, whether SystemExit rose
    ups             \* "up" presses since the HistoryViewer was built, -1 once
                    \* any other key was pressed in it (or past a full cycle)

\* ---------------------------------------------------------------------
\* State of the dungeon generator
\* ---------------------------------------------------------------------
VARIABLES
    gen_pc,         \* "idle", "loop" (inside the for loop) or "done" (returned)
    params,         \* max_rooms, room_min_size, room_max_size, map_width, map_height
    attempt,        \* r, the number of attempts made so far
    rooms,          \* the accepted rooms, in placement order
    floor,          \* the cells of dungeon.tiles set to floor
    spawn,          \* (player.x, player.y) as set by generate_dungeon
    tunnels         \* the cell sequences tunnel_between produced, in order

\* ---------------------------------------------------------------------
\* A call of tunnel_between on its own
\* ---------------------------------------------------------------------
VARIABLES
    tb_start,       \* the argument start
    tb_end,         \* the argument end
    tb_cells        \* the cells the call yielded, in order (<<>> before it)

ui_vars == <<handler, viewer, messages, mouse_location, player, inventory,
             world_items, width, height, running, last, ups>>
gen_vars == <<gen_pc, params, attempt, rooms, floor, spawn, tunnels>>
call_vars == <<tb_start, tb_end, tb_cells>>
vars == <<ui_vars, gen_vars, call_vars>>

Handlers ==
    {"MainGame", "InventoryActivate", "InventoryDrop", "Look", "HistoryViewer",
     "GameOver"}
AskUserFamily == {"InventoryActivate", "InventoryDrop", "Look"}
InventoryFamily == {"InventoryActivate", "InventoryDrop"}
SelectIndexFamily == {"Look"}

\* no HistoryViewer instance is referenced by the engine
NoViewer == [log_length |-> -1, cursor |-> -1]

NoAction == [kind |-> "None", dx |-> 0, dy |-> 0, item |-> 0]
BumpAction(dx, dy) == [kind |-> "Bump", dx |-> dx, dy |-> dy, item |-> 0]
WaitAction == [kind |-> "Wait", dx |-> 0, dy |-> 0, item |-> 0]
PickupAction == [kind |-> "Pickup", dx |-> 0, dy |-> 0, item |-> 0]
DropItem(item) == [kind |-> "Drop", dx |-> 0, dy |-> 0, item |-> item]
ItemAction(item) == [kind |-> "Use", dx |-> 0, dy |-> 0, item |-> item]

\* the engine as the handlers see it
Engine ==
    [handler |-> handler, viewer |-> viewer, messages |-> messages,
     mouse_location |-> mouse_location, player |-> player,
     inventory |-> inventory, world_items |-> world_items,
     width |-> width, height |-> height]

\* what an event method hands back: the engine after it, the action it
\* returns (NoAction for None) and whether it raised SystemExit
Return(g, action) == [g |-> g, action |-> action, exit |-> FALSE]
RaiseSystemExit(g) == [g |-> g, action |-> NoAction, exit |-> TRUE]

\* game_map.in_bounds(x, y)
in_bounds(g, x, y) == 0 <= x /\ x < g.width /\ 0 <= y /\ y < g.height

\* message_log.add_message(text, ...)
add_message(g, text) == [g EXCEPT !.messages = Append(@, text)]

\* MainGameEventHandler(engine)
NewMainGame(g) == [g EXCEPT !.handler = "MainGame", !.viewer = NoViewer]

\* HistoryViewer.__init__
NewHistoryViewer(g) ==
    [g EXCEPT !.handler = "HistoryViewer",
              !.viewer = [log_length |-> Len(g.messages),
                          cursor |-> Len(g.messages) - 1]]

\* InventoryActivateHandler(engine), InventoryDropHandler(engine)
NewInventory(g, class) == [g EXCEPT !.handler = class, !.viewer = NoViewer]

\* SelectIndexHandler.__init__ (LookHandler has no constructor of its own)
NewLook(g) ==
    [g EXCEPT !.handler = "Look", !.viewer = NoViewer,
              !.mouse_location = g.player]

\* EventHandler.ev_mousemotion
ev_mousemotion(g, tx, ty) ==
    IF in_bounds(g, tx, ty)
    THEN Return([g EXCEPT !.mouse_location = <<tx, ty>>], NoAction)
    ELSE Return(g, NoAction)

\* a variant of ev_quit with a slip: the event is ignored
ev_quit_Ignored(g) == Return(g, NoAction)

\* EventHandler.ev_quit
ev_quit(g) == RaiseSystemExit(g)

\* AskUserEventHandler.on_exit
on_exit(g) == Return(NewMainGame(g), NoAction)

\* a variant of AskUser_ev_keydown with a slip: modifier keys exit too
AskUser_ev_keydown_NoIgnore(g, sym) == on_exit(g)

\* AskUserEventHandler.ev_keydown
AskUser_ev_keydown(g, sym) ==
    IF sym \in MODIFIER_KEYS THEN Return(g, NoAction) ELSE on_exit(g)

\* AskUserEventHandler.ev_mousebuttondown
AskUser_ev_mousebuttondown(g) == on_exit(g)

\* InventoryActivateHandler.on_item_selected, InventoryDropHandler.on_item_selected
on_item_selected(class, g, item) ==
    IF class = "InventoryActivate"
    THEN Return(g, ItemAction(item))
    ELSE Return(g, DropItem(item))

\* a variant of Inventory_ev_keydown with a slip: the offset is taken from "b"
Inventory_ev_keydown_FromB(class, g, sym) ==
    LET index == sym - K_b IN
    IF 0 <= index /\ index <= 26
    THEN IF index >= Len(g.inventory)
         THEN Return(add_message(g, "Invalid entry"), NoAction)
         ELSE on_item_selected(class, g, g.inventory[index + 1])
    ELSE AskUser_ev_keydown(g, sym)

\* InventoryEventHandler.ev_keydown; Python's items[index] with index >= 0
\* raises IndexError exactly when index >= len(items)
Inventory_ev_keydown(class, g, sym) ==
    LET index == sym - K_a IN
    IF 0 <= index /\ index <= 26
    THEN IF index >= Len(g.inventory)
         THEN Return(add_message(g, "Invalid entry"), NoAction)
         ELSE on_item_selected(class, g, g.inventory[index + 1])
    ELSE AskUser_ev_keydown(g, sym)

\* LookHandler.on_index_selected
on_index_selected(g, x, y) == Return(NewMainGame(g), NoAction)

\* the masks SelectIndexHandler.ev_keydown tests event.mod against
ShiftMask == BitOr(K_LSHIFT, K_RSHIFT)
CtrlMask == BitOr(K_LCTRL, K_RCTRL)
AltMask == BitOr(K_LALT, K_RALT)

\* the speed-up factor SelectIndexHandler.ev_keydown computes from event.mod
KeyModifier(mod) ==
    LET m1 == IF BitAnd(mod, ShiftMask) # 0 THEN 5 ELSE 1
        m2 == IF BitAnd(mod, CtrlMask) # 0 THEN m1 * 10 ELSE m1
        m3 == IF BitAnd(mod, AltMask) # 0 THEN m2 * 20 ELSE m2
    IN m3

\* a variant of ClampCursor with a slip: clamps to the size, not the last index
ClampCursorToSize(g, x, y) ==
    <<Max(0, Min(x, g.width)), Max(0, Min(y, g.height))>>

\* the clamp of SelectIndexHandler.ev_keydown
ClampCursor(g, x, y) ==
    <<Max(0, Min(x, g.width - 1)), Max(0, Min(y, g.height - 1))>>

\* a variant of SelectIndex_ev_keydown with a slip: after moving the cursor
\* the key falls through to the default, which exits
SelectIndex_ev_keydown_FallThrough(g, sym, mod) ==
    IF sym \in DOMAIN MOVE_KEYS
    THEN LET modifier == KeyModifier(mod)
             x == g.mouse_location[1] + MOVE_KEYS[sym][1] * modifier
             y == g.mouse_location[2] + MOVE_KEYS[sym][2] * modifier
         IN AskUser_ev_keydown([g EXCEPT !.mouse_location = ClampCursor(g, x, y)],
                               sym)
    ELSE IF sym \in CONFIRM_KEYS
    THEN on_index_selected(g, g.mouse_location[1], g.mouse_location[2])
    ELSE AskUser_ev_keydown(g, sym)

\* SelectIndexHandler.ev_keydown
SelectIndex_ev_keydown(g, sym, mod) ==
    IF sym \in DOMAIN MOVE_KEYS
    THEN LET modifier == KeyModifier(mod)
             x == g.mouse_location[1] + MOVE_KEYS[sym][1] * modifier
             y == g.mouse_location[2] + MOVE_KEYS[sym][2] * modifier
         IN Return([g EXCEPT !.mouse_location = ClampCursor(g, x, y)], NoAction)
    ELSE IF sym \in CONFIRM_KEYS
    THEN on_index_selected(g, g.mouse_location[1], g.mouse_location[2])
    ELSE AskUser_ev_keydown(g, sym)

\* SelectIndexHandler.ev_mousebuttondown
SelectIndex_ev_mousebuttondown(g, tx, ty, button) ==
    IF in_bounds(g, tx, ty) /\ button = 1
    THEN on_index_selected(g, tx, ty)
    ELSE AskUser_ev_mousebuttondown(g)

\* a variant of MainGame_ev_keydown with a slip: "i" and "d" open each
\* other's menu
MainGame_ev_keydown_Swapped(g, sym) ==
    IF sym \in DOMAIN MOVE_KEYS
    THEN Return(g, BumpAction(MOVE_KEYS[sym][1], MOVE_KEYS[sym][2]))
    ELSE IF sym \in WAIT_KEYS THEN Return(g, WaitAction)
    ELSE IF sym = K_ESCAPE THEN RaiseSystemExit(g)
    ELSE IF sym = K_v THEN Return(NewHistoryViewer(g), NoAction)
    ELSE IF sym = K_g THEN Return(g, PickupAction)
    ELSE IF sym = K_i THEN Return(NewInventory(g, "InventoryDrop"), NoAction)
    ELSE IF sym = K_d THEN Return(NewInventory(g, "InventoryActivate"), NoAction)
    ELSE IF sym = K_SLASH THEN Return(NewLook(g), NoAction)
    ELSE Return(g, NoAction)

\* MainGameEventHandler.ev_keydown
MainGame_ev_keydown(g, sym) ==
    IF sym \in DOMAIN MOVE_KEYS
    THEN Return(g, BumpAction(MOVE_KEYS[sym][1], MOVE_KEYS[sym][2]))
    ELSE IF sym \in WAIT_KEYS THEN Return(g, WaitAction)
    ELSE IF sym = K_ESCAPE THEN RaiseSystemExit(g)
    ELSE IF sym = K_v THEN Return(NewHistoryViewer(g), NoAction)
    ELSE IF sym = K_g THEN Return(g, PickupAction)
    ELSE IF sym = K_i THEN Return(NewInventory(g, "InventoryActivate"), NoAction)
    ELSE IF sym = K_d THEN Return(NewInventory(g, "InventoryDrop"), NoAction)
    ELSE IF sym = K_SLASH THEN Return(NewLook(g), NoAction)
    ELSE Return(g, NoAction)

\* a variant of GameOver_ev_keydown with a slip: return starts the main game
\* again
GameOver_ev_keydown_Restart(g, sym) ==
    IF sym = K_ESCAPE THEN RaiseSystemExit(g)
    ELSE IF sym = K_RETURN THEN Return(NewMainGame(g), NoAction)
    ELSE Return(g, NoAction)

\* GameOverEventHandler.ev_keydown
GameOver_ev_keydown(g, sym) ==
    IF sym = K_ESCAPE THEN RaiseSystemExit(g) ELSE Return(g, NoAction)

\* variants of HistoryCursor with a slip: no wrap at the edges; no clamp;
\* wrapping up to the top instead of the bottom
HistoryCursorClampOnly(cursor, log_length, adjust) ==
    Max(0, Min(cursor + adjust, log_length - 1))

HistoryCursorNoClamp(cursor, log_length, adjust) ==
    IF adjust < 0 /\ cursor = 0 THEN log_length - 1
    ELSE IF adjust > 0 /\ cursor = log_length - 1 THEN 0
    ELSE cursor + adjust

HistoryCursorWrapShort(cursor, log_length, adjust) ==
    IF adjust < 0 /\ cursor = 0 THEN Max(0, log_length - 2)
    ELSE IF adjust > 0 /\ cursor = log_length - 1 THEN 0
    ELSE Max(0, Min(cursor + adjust, log_length - 1))

\* the cursor HistoryViewer.ev_keydown sets for a key of CURSOR_Y_KEYS
HistoryCursor(cursor, log_length, adjust) ==
    IF adjust < 0 /\ cursor = 0 THEN log_length - 1
    ELSE IF adjust > 0 /\ cursor = log_length - 1 THEN 0
    ELSE Max(0, Min(cursor + adjust, log_length - 1))

\* HistoryViewer.ev_keydown
HistoryViewer_ev_keydown(g, sym) ==
    IF sym \in DOMAIN CURSOR_Y_KEYS
    THEN Return([g EXCEPT !.viewer.cursor =
                    HistoryCursor(@, g.viewer.log_length, CURSOR_Y_KEYS[sym])],
                NoAction)
    ELSE IF sym = K_HOME THEN Return([g EXCEPT !.viewer.cursor = 0], NoAction)
    ELSE IF sym = K_END
    THEN Return([g EXCEPT !.viewer.cursor = g.viewer.log_length - 1], NoAction)
    ELSE Return(NewMainGame(g), NoAction)

\* dispatch of a key-down event to the active handler's ev_keydown
dispatch_keydown(g, sym, mod) ==
    CASE g.handler = "MainGame" -> MainGame_ev_keydown(g, sym)
      [] g.handler \in InventoryFamily -> Inventory_ev_keydown(g.handler, g, sym)
      [] g.handler \in SelectIndexFamily -> SelectIndex_ev_keydown(g, sym, mod)
      [] g.handler = "HistoryViewer" -> HistoryViewer_ev_keydown(g, sym)
      [] g.handler = "GameOver" -> GameOver_ev_keydown(g, sym)

\* dispatch of a mouse-button-down event: MainGame, HistoryViewer and
\* GameOver define no ev_mousebuttondown, and the dispatcher's default
\* returns None
dispatch_mousebuttondown(g, tx, ty, button) ==
    CASE g.handler \in InventoryFamily -> AskUser_ev_mousebuttondown(g)
      [] g.handler \in SelectIndexFamily ->
            SelectIndex_ev_mousebuttondown(g, tx, ty, button)
      [] OTHER -> Return(g, NoAction)

\* ---------------------------------------------------------------------
\* The collaborators the handlers call
\* ---------------------------------------------------------------------
Range(f) == {f[i] : i \in DOMAIN f}
Remove(seq, x) == SelectSeq(seq, LAMBDA v : v # x)

\* Action.perform(): any action may succeed or raise Impossible; a
\* successful bump may move the player inside the map, a successful pickup
\* adds an item, a successful drop or use removes the item
PerformResults(g, action) ==
    LET fail == [ok |-> FALSE, player |-> g.player, inventory |-> g.inventory]
        stay == [ok |-> TRUE, player |-> g.player, inventory |-> g.inventory]
        tx == g.player[1] + action.dx
        ty == g.player[2] + action.dy
    IN CASE action.kind = "Bump" ->
              {fail} \cup
              (IF in_bounds(g, tx, ty)
               THEN {stay, [stay EXCEPT !.player = <<tx, ty>>]} ELSE {})
         [] action.kind = "Wait" -> {fail, stay}
         [] action.kind = "Pickup" ->
              {fail} \cup
              {[stay EXCEPT !.inventory = Append(g.inventory, it)] :
                  it \in g.world_items \ Range(g.inventory)}
         [] action.kind \in {"Drop", "Use"} ->
              {fail, [stay EXCEPT !.inventory = Remove(g.inventory, action.item)]}
         [] OTHER -> {stay}

\* engine.handle_enemy_turns(): the enemies act; when they kill the player
\* the game-over handler becomes the active one
handle_enemy_turns(g, dies) ==
    IF dies THEN [g EXCEPT !.handler = "GameOver", !.viewer = NoViewer] ELSE g

\* engine.update_fov(): touches nothing the handlers read
update_fov(g) == g

\* a variant of EventHandler_handle_action with a slip: no return in the
\* except branch, so the enemy turn runs after an impossible action
EventHandler_handle_action_NoReturn(g, action, p, dies) ==
    IF action = NoAction
    THEN [g |-> g, calls |-> <<>>, turn |-> FALSE]
    ELSE LET g1 == IF p.ok
                   THEN [g EXCEPT !.player = p.player, !.inventory = p.inventory]
                   ELSE add_message(g, "Impossible")
         IN [g |-> update_fov(handle_enemy_turns(g1, dies)),
             calls |-> (IF p.ok THEN <<"perform">> ELSE <<"perform", "add_message">>)
                       \o <<"handle_enemy_turns", "update_fov">>,
             turn |-> TRUE]

\* a variant of EventHandler_handle_action with a slip: the field of view is
\* recomputed before the enemies act
EventHandler_handle_action_FovFirst(g, action, p, dies) ==
    IF action = NoAction
    THEN [g |-> g, calls |-> <<>>, turn |-> FALSE]
    ELSE IF ~p.ok
    THEN [g |-> add_message(g, "Impossible"),
          calls |-> <<"perform", "add_message">>, turn |-> FALSE]
    ELSE [g |-> handle_enemy_turns(update_fov(
                    [g EXCEPT !.player = p.player, !.inventory = p.inventory]),
                    dies),
          calls |-> <<"perform", "update_fov", "handle_enemy_turns">>,
          turn |-> TRUE]

\* EventHandler.handle_action: p is what perform() does, dies what the enemy
\* turn does; calls lists the calls made, turn is the value returned
EventHandler_handle_action(g, action, p, dies) ==
    IF action = NoAction
    THEN [g |-> g, calls |-> <<>>, turn |-> FALSE]
    ELSE IF ~p.ok
    THEN [g |-> add_message(g, "Impossible"),
          calls |-> <<"perform", "add_message">>, turn |-> FALSE]
    ELSE [g |-> update_fov(handle_enemy_turns(
                    [g EXCEPT !.player = p.player, !.inventory = p.inventory],
                    dies)),
          calls |-> <<"perform", "handle_enemy_turns", "update_fov">>,
          turn |-> TRUE]

\* a variant of AskUser_handle_action with a slip: returns to the main game
\* whatever the action did
AskUser_handle_action_Always(g, action, p, dies) ==
    LET r == EventHandler_handle_action(g, action, p, dies) IN
    [r EXCEPT !.g = NewMainGame(r.g), !.calls = Append(@, "MainGameEventHandler")]

\* AskUserEventHandler.handle_action
AskUser_handle_action(g, action, p, dies) ==
    LET r == EventHandler_handle_action(g, action, p, dies) IN
    IF r.turn
    THEN [r EXCEPT !.g = NewMainGame(r.g),
                   !.calls = Append(@, "MainGameEventHandler")]
    ELSE r

\* self.handle_action of the handler object that received the event
handle_action(self, g, action, p, dies) ==
    IF self \in AskUserFamily
    THEN AskUser_handle_action(g, action, p, dies)
    ELSE EventHandler_handle_action(g, action, p, dies)

\* messages the handlers added to the log (the log starts with "earlier" ones)
Added(msgs) == Cardinality({i \in DOMAIN msgs : msgs[i] # "earlier"})

\* the model stops logging after MaxAdded added messages, and at
\* MaxLog + MaxAdded messages in all
LogFits(msgs) == Added(msgs) <= MaxAdded /\ Len(msgs) <= MaxLog + MaxAdded

\* ---------------------------------------------------------------------
\* Events: EventHandler.handle_events(event) for each kind of event
\* ---------------------------------------------------------------------
\* the engine's fields after the event
Store(g) ==
    /\ handler' = g.handler
    /\ viewer' = g.viewer
    /\ messages' = g.messages
    /\ mouse_location' = g.mouse_location
    /\ player' = g.player
    /\ inventory' = g.inventory

\* SystemExit unwinds out of the event loop: nothing else changes
Terminate(event, sym) ==
    /\ running' = FALSE
    /\ last' = [event |-> event, sym |-> sym, on |-> handler,
                dispatched |-> handler, action |-> NoAction,
                performed |-> "none", calls |-> <<>>, turn |-> FALSE,
                exit |-> TRUE]
    /\ UNCHANGED <<handler, viewer, messages, mouse_location, player, inventory,
                   ups>>

\* dispatch result d, then handle_action on what it returned
Handle(event, sym, d) ==
    \E p \in PerformResults(d.g, d.action) :
    \E dies \in (IF d.action # NoAction /\ p.ok THEN BOOLEAN ELSE {FALSE}) :
    \E r \in {handle_action(handler, d.g, d.action, p, dies)} :
        /\ LogFits(r.g.messages)
        /\ Store(r.g)
        /\ running' = TRUE
        /\ last' = [event |-> event, sym |-> sym, on |-> handler,
                    dispatched |-> d.g.handler, action |-> d.action,
                    performed |-> IF d.action = NoAction THEN "none"
                                  ELSE IF p.ok THEN "ok" ELSE "impossible",
                    calls |-> r.calls, turn |-> r.turn, exit |-> FALSE]
        /\ ups' = IF r.g.handler # "HistoryViewer" THEN -1
                  ELSE IF handler # "HistoryViewer" THEN 0
                  ELSE IF event = "keydown" /\ sym = K_UP /\ ups >= 0
                          /\ ups < viewer.log_length
                  THEN ups + 1
                  ELSE IF event = "keydown" THEN -1 ELSE ups

KeyDown(sym, mod) ==
    /\ running
    /\ \E d \in {dispatch_keydown(Engine, sym, mod)} :
          IF d.exit THEN Terminate("keydown", sym) ELSE Handle("keydown", sym, d)
    /\ UNCHANGED <<world_items, width, height, gen_vars, call_vars>>

MouseMotion(tx, ty) ==
    /\ running
    /\ \E d \in {ev_mousemotion(Engine, tx, ty)} : Handle("mousemotion", 0, d)
    /\ UNCHANGED <<world_items, width, height, gen_vars, call_vars>>

MouseButtonDown(tx, ty, button) ==
    /\ running
    /\ \E d \in {dispatch_mousebuttondown(Engine, tx, ty, button)} :
          Handle("mousebuttondown", 0, d)
    /\ UNCHANGED <<world_items, width, height, gen_vars, call_vars>>

Quit ==
    /\ running
    /\ \E d \in {ev_quit(Engine)} :
          IF d.exit THEN Terminate("quit", 0) ELSE Handle("quit", 0, d)
    /\ UNCHANGED <<world_items, width, height, gen_vars, call_vars>>

\* tiles an event may point at: the map and one tile beyond each edge
TileXs == -1..width
TileYs == -1..height
Buttons == {1, 3}

\* the modifier bitmasks tried with a key: all of them where the handler
\* reads event.mod (a SelectIndex movement key), none held elsewhere
ModsTried(sym) ==
    IF handler \in SelectIndexFamily /\ sym \in DOMAIN MOVE_KEYS THEN Mods ELSE {0}

NextUI ==
    \/ \E sym \in Keys : \E mod \in ModsTried(sym) : KeyDown(sym, mod)
    \/ \E tx \in TileXs, ty \in TileYs : MouseMotion(tx, ty)
    \/ \E tx \in TileXs, ty \in TileYs, button \in Buttons :
          MouseButtonDown(tx, ty, button)
    \/ Quit

\* tunnel_between is not being called on its own
CallIdle ==
    /\ tb_start = <<0, 0>>
    /\ tb_end = <<0, 0>>
    /\ tb_cells = <<>>

GenIdle ==
    /\ gen_pc = "idle"
    /\ params = [max_rooms |-> 0, room_min_size |-> 0, room_max_size |-> 0,
                 map_width |-> 0, map_height |-> 0]
    /\ attempt = 0
    /\ rooms = <<>>
    /\ floor = {}
    /\ spawn = <<0, 0>>
    /\ tunnels = <<>>

\* no event was handled yet
NoEvent ==
    [event |-> "none", sym |-> 0, on |-> "MainGame", dispatched |-> "MainGame",
     action |-> NoAction, performed |-> "none", calls |-> <<>>, turn |-> FALSE,
     exit |-> FALSE]

\* a session: main game active, nothing shown yet, the player somewhere on
\* a w x h map, n messages already logged, k items in the world
InitUI(w, h, n, k) ==
    /\ handler = "MainGame"
    /\ viewer = NoViewer
    /\ messages = [i \in 1..n |-> "earlier"]
    /\ mouse_location = <<0, 0>>
    /\ player \in (0..(w - 1)) \X (0..(h - 1))
    /\ inventory = <<>>
    /\ world_items = 1..k
    /\ width = w
    /\ height = h
    /\ running = TRUE
    /\ last = NoEvent
    /\ ups = -1
    /\ GenIdle
    /\ CallIdle

\* the map: a session on a MapWidth x MapHeight map, late in a game (the log
\* already holds all the messages the model lets it hold)
Init == InitUI(MapWidth, MapHeight, MaxLog + MaxAdded, 0)
Next == NextUI
Spec == Init /\ [][Next]_vars

\* the message history: a session that starts with 0..MaxLog messages logged
InitHistory == \E n \in 0..MaxLog : InitUI(1, 1, n, 0)
SpecHistory == InitHistory /\ [][Next]_vars

\* the inventory: a session with MaxItems items to pick up
InitInventory == InitUI(1, 1, 0, MaxItems)
SpecInventory == InitInventory /\ [][Next]_vars

\* ---------------------------------------------------------------------
\* The dungeon generator (procgen.py)
\* ---------------------------------------------------------------------
\* RectangularRoom.__init__
RectangularRoom(x, y, w, h) == [x1 |-> x, y1 |-> y, x2 |-> x + w, y2 |-> y + h]

\* RectangularRoom.center: int() of a non-negative quotient truncates
center(room) == <<(room.x1 + room.x2) \div 2, (room.y1 + room.y2) \div 2>>

\* a variant of inner with a slip: the slices start at x1 and y1 and include
\* x2 and y2, so the walls are selected too
innerWithWalls(room) == (room.x1..room.x2) \X (room.y1..room.y2)

\* RectangularRoom.inner, as the set of cells the two slices select
inner(room) == ((room.x1 + 1)..(room.x2 - 1)) \X ((room.y1 + 1)..(room.y2 - 1))

\* a variant of intersects with a slip: strict comparisons, so rooms that
\* share an edge do not count as overlapping
intersectsStrictly(self, other) ==
    /\ self.x1 < other.x2
    /\ self.x2 > other.x1
    /\ self.y1 < other.y2
    /\ self.y2 > other.y1

\* RectangularRoom.intersects
intersects(self, other) ==
    /\ self.x1 <= other.x2
    /\ self.x2 >= other.x1
    /\ self.y1 <= other.y2
    /\ self.y2 >= other.y1

Abs(n) == IF n < 0 THEN -n ELSE n
Sign(n) == IF n < 0 THEN -1 ELSE IF n > 0 THEN 1 ELSE 0

\* tcod.los.bresenham(start, end).tolist(): the cells of the line from start
\* to end, both included (integer Bresenham with error term err)
RECURSIVE BresenhamFrom(_, _, _, _, _)
BresenhamFrom(x, y, x2, y2, err) ==
    IF x = x2 /\ y = y2 THEN <<<<x, y>>>>
    ELSE LET dx == Abs(x2 - x)
             dy == Abs(y2 - y)
             e2 == 2 * err
             stepx == e2 > -dy
             stepy == e2 < dx
             nx == IF stepx THEN x + Sign(x2 - x) ELSE x
             ny == IF stepy THEN y + Sign(y2 - y) ELSE y
             nerr == err - (IF stepx THEN dy ELSE 0) + (IF stepy THEN dx ELSE 0)
         IN <<<<x, y>>>> \o BresenhamFrom(nx, ny, x2, y2, nerr)

bresenham(start, end) ==
    BresenhamFrom(start[1], start[2], end[1], end[2],
                  Abs(end[1] - start[1]) - Abs(end[2] - start[2]))

\* a variant of tunnel_between with a slip: the second leg is left out
tunnel_between_FirstLeg(start, end, horizontal) ==
    LET corner == IF horizontal THEN <<end[1], start[2]>> ELSE <<start[1], end[2]>>
    IN bresenham(start, corner)

\* a variant of tunnel_between with a slip: one line from start to end, no
\* corner
tunnel_between_Direct(start, end, horizontal) == bresenham(start, end)

\* tunnel_between: horizontal is the outcome of random.random() < 0.5
tunnel_between(start, end, horizontal) ==
    LET corner == IF horizontal THEN <<end[1], start[2]>> ELSE <<start[1], end[2]>>
    IN bresenham(start, corner) \o bresenham(corner, end)

\* the values random.randint(a, b) may return
randint(a, b) == a..b

\* generate_dungeon, its for loop: one attempt that places new_room; the room
\* is skipped when it intersects an accepted one
NewRooms ==
    {RectangularRoom(x, y, w, h) :
        <<x, y, w, h>> \in
            {q \in (0..params.map_width) \X (0..params.map_height)
                   \X randint(params.room_min_size, params.room_max_size)
                   \X randint(params.room_min_size, params.room_max_size) :
                /\ q[1] \in randint(0, params.map_width - q[3] - 1)
                /\ q[2] \in randint(0, params.map_height - q[4] - 1)}}

Rejected(new_room) == \E i \in DOMAIN rooms : intersects(new_room, rooms[i])

GenReject ==
    /\ gen_pc = "loop"
    /\ attempt < params.max_rooms
    /\ \E new_room \in NewRooms :
          /\ Rejected(new_room)
          /\ attempt' = attempt + 1
    /\ UNCHANGED <<gen_pc, params, rooms, floor, spawn, tunnels, ui_vars, call_vars>>

GenAcceptFirst ==
    /\ gen_pc = "loop"
    /\ attempt < params.max_rooms
    /\ rooms = <<>>
    /\ \E new_room \in NewRooms :
          /\ ~Rejected(new_room)
          /\ floor' = floor \cup inner(new_room)
          /\ spawn' = center(new_room)
          /\ rooms' = Append(rooms, new_room)
          /\ attempt' = attempt + 1
    /\ UNCHANGED <<gen_pc, params, tunnels, ui_vars, call_vars>>

GenAcceptNext ==
    /\ gen_pc = "loop"
    /\ attempt < params.max_rooms
    /\ rooms # <<>>
    /\ \E new_room \in NewRooms, horizontal \in BOOLEAN :
       \E path \in {tunnel_between(center(rooms[Len(rooms)]), center(new_room),
                                   horizontal)} :
          /\ ~Rejected(new_room)
          /\ floor' = floor \cup inner(new_room) \cup Range(path)
          /\ tunnels' = Append(tunnels, path)
          /\ rooms' = Append(rooms, new_room)
          /\ attempt' = attempt + 1
    /\ UNCHANGED <<gen_pc, params, spawn, ui_vars, call_vars>>

\* generate_dungeon returns the dungeon
GenReturn ==
    /\ gen_pc = "loop"
    /\ attempt = params.max_rooms
    /\ gen_pc' = "done"
    /\ UNCHANGED <<params, attempt, rooms, floor, spawn, tunnels, ui_vars, call_vars>>

NextGen == GenReject \/ GenAcceptFirst \/ GenAcceptNext \/ GenReturn

UIIdle ==
    /\ handler = "MainGame"
    /\ viewer = NoViewer
    /\ messages = <<>>
    /\ mouse_location = <<0, 0>>
    /\ player = <<0, 0>>
    /\ inventory = <<>>
    /\ world_items = {}
    /\ width = 1
    /\ height = 1
    /\ running = TRUE
    /\ last = NoEvent
    /\ ups = -1

\* generate_dungeon(max_rooms, room_min_size, room_max_size, map_width,
\* map_height, player) is entered: an all-wall grid, no rooms
InitGenWith(p) ==
    /\ gen_pc = "loop"
    /\ params = p
    /\ attempt = 0
    /\ rooms = <<>>
    /\ floor = {}
    /\ spawn = <<0, 0>>
    /\ tunnels = <<>>
    /\ UIIdle
    /\ CallIdle

InitGen ==
    InitGenWith([max_rooms |-> MaxRooms, room_min_size |-> 1,
                 room_max_size |-> MaxRoomSize, map_width |-> GenMapWidth,
                 map_height |-> GenMapHeight])

SpecGen == InitGen /\ [][NextGen]_vars

\* the call generate_dungeon(max_rooms=1, room_min_size=4, room_max_size=4,
\* map_width=20, map_height=20, player)
ScenarioParams ==
    [max_rooms |-> 1, room_min_size |-> 4, room_max_size |-> 4,
     map_width |-> 20, map_height |-> 20]

\* generate_dungeon entered with the parameters of that call, or with those
\* of InitGen
InitScenario == InitGenWith(ScenarioParams) \/ InitGen
SpecScenario == InitScenario /\ [][NextGen]_vars

\* ---------------------------------------------------------------------
\* tunnel_between(start, end) called on its own, for any two points of a
\* (TunnelSpan + 1) x (TunnelSpan + 1) grid and either outcome of the coin
\* ---------------------------------------------------------------------
TunnelPoints == (0..TunnelSpan) \X (0..TunnelSpan)

TunnelCall ==
    /\ tb_cells = <<>>
    /\ \E horizontal \in BOOLEAN :
          tb_cells' = tunnel_between(tb_start, tb_end, horizontal)
    /\ UNCHANGED <<tb_start, tb_end, ui_vars, gen_vars>>

InitTunnel ==
    /\ tb_start \in TunnelPoints
    /\ tb_end \in TunnelPoints
    /\ tb_cells = <<>>
    /\ UIIdle
    /\ GenIdle

NextTunnel == TunnelCall
SpecTunnel == InitTunnel /\ [][NextTunnel]_vars

\* =====================================================================
\* Properties
\* =====================================================================
\* the step is the key-down event sym, delivered to handler class h
KeyStep(h, sym) ==
    handler = h /\ last'.event = "keydown" /\ last'.sym = sym /\ ~last'.exit

Clamp(v, lo, hi) == Max(lo, Min(v, hi))

\* ---------------------------------------------------------------------
\* C1 (as claimed): in HistoryViewer, page-up and page-down move the cursor
\* by -10 / +10 clamped to [0, log_length-1] and never wrap; so page-down at
\* log_length-1 stays there and page-up at 0 stays at 0.
C1_PageKeysNeverWrap ==
    [][\A sym \in {K_PAGEUP, K_PAGEDOWN} :
          KeyStep("HistoryViewer", sym) =>
              viewer'.cursor =
                  Clamp(viewer.cursor + (IF sym = K_PAGEUP THEN -10 ELSE 10),
                        0, viewer.log_length - 1)]_vars

\* C1 (amended): over a non-empty log, page-up and page-down move the cursor
\* by -10 / +10 clamped to [0, log_length-1], except at the edge the key
\* points to, where they wrap like up and down: page-down at log_length-1
\* goes to 0 and page-up at 0 goes to log_length-1.
C1_PageKeysWrapAtEdge ==
    [][\A sym \in {K_PAGEUP, K_PAGEDOWN} :
          (KeyStep("HistoryViewer", sym) /\ viewer.log_length >= 1) =>
              viewer'.cursor =
                  IF sym = K_PAGEUP /\ viewer.cursor = 0
                  THEN viewer.log_length - 1
                  ELSE IF sym = K_PAGEDOWN /\ viewer.cursor = viewer.log_length - 1
                  THEN 0
                  ELSE Clamp(viewer.cursor + (IF sym = K_PAGEUP THEN -10 ELSE 10),
                             0, viewer.log_length - 1)]_vars

\* page-down was pressed on the newest of at least 11 messages and wrapped
C1_Witness ==
    /\ handler = "HistoryViewer"
    /\ last.on = "HistoryViewer"
    /\ last.sym = K_PAGEDOWN
    /\ viewer.log_length >= 11
    /\ viewer.cursor = 0

\* ---------------------------------------------------------------------
\* C2 (as claimed): in every reachable state of a HistoryViewer, over any
\* message log and after any keys, 0 <= cursor <= log_length-1.
C2_CursorInLog ==
    handler = "HistoryViewer" =>
        (0 <= viewer.cursor /\ viewer.cursor <= viewer.log_length - 1)

\* C2 (amended): in every reachable state of a HistoryViewer built over a
\* non-empty message log, 0 <= cursor <= log_length-1, with log_length the
\* log size at construction; over an empty log the cursor is -1 or 0.
C2_CursorInNonEmptyLog ==
    handler = "HistoryViewer" =>
        /\ viewer.log_length = Len(messages)
        /\ viewer.log_length >= 1 =>
              (0 <= viewer.cursor /\ viewer.cursor <= viewer.log_length - 1)
        /\ viewer.log_length = 0 => viewer.cursor \in {-1, 0}

\* page-up from the third message of a long log was clamped to 0
C2_Witness ==
    /\ handler = "HistoryViewer"
    /\ last.on = "HistoryViewer"
    /\ last.sym = K_PAGEUP
    /\ viewer.log_length >= 12
    /\ viewer.cursor = 0
    /\ ups = -1

\* ---------------------------------------------------------------------
\* C3: in HistoryViewer, up and down move the cursor by 1 and wrap at the
\* edges (up from 0 to log_length-1, down from log_length-1 to 0); from the
\* initial cursor log_length-1, log_length presses of up bring the cursor
\* back to log_length-1, for every log_length >= 1, and the handler is the
\* HistoryViewer all along.
C3_UpCycle ==
    /\ [](ups >= 0 =>
            /\ handler = "HistoryViewer"
            /\ viewer.log_length >= 1 =>
                  viewer.cursor =
                      (viewer.log_length - 1 - ups) % viewer.log_length
            /\ (viewer.log_length >= 1 /\ ups = viewer.log_length) =>
                  viewer.cursor = viewer.log_length - 1)
    /\ [][\A sym \in {K_UP, K_DOWN} :
            (KeyStep("HistoryViewer", sym) /\ viewer.log_length >= 1) =>
                /\ handler' = "HistoryViewer"
                /\ viewer'.cursor =
                      IF sym = K_UP
                      THEN (IF viewer.cursor = 0 THEN viewer.log_length - 1
                            ELSE viewer.cursor - 1)
                      ELSE (IF viewer.cursor = viewer.log_length - 1 THEN 0
                            ELSE viewer.cursor + 1)]_vars

\* up was pressed log_length times in a viewer over at least 3 messages
C3_Witness ==
    /\ handler = "HistoryViewer"
    /\ viewer.log_length >= 3
    /\ ups = viewer.log_length
    /\ last.sym = K_UP

\* ---------------------------------------------------------------------
\* C4: when the action an event produced fails with Impossible,
\* handle_action appends exactly one message to the log, calls neither
\* handle_enemy_turns nor update_fov, returns False (no turn elapsed), and
\* leaves the active handler as it was (MainGame stays MainGame, an
\* inventory handler stays that inventory handler).
C4_ImpossibleAction ==
    [][last'.performed = "impossible" =>
          /\ Len(messages') = Len(messages) + 1
          /\ SubSeq(messages', 1, Len(messages)) = messages
          /\ last'.calls = <<"perform", "add_message">>
          /\ last'.turn = FALSE
          /\ handler' = handler
          /\ handler' = last'.on]_vars

\* an item's use was impossible in the inventory menu
C4_Witness ==
    /\ last.performed = "impossible"
    /\ last.on = "InventoryActivate"
    /\ last.action.kind = "Use"
    /\ handler = "InventoryActivate"
    /\ Len(messages) = 1

\* ---------------------------------------------------------------------
\* C5: for an AskUser-family handler (InventoryActivate, InventoryDrop,
\* Look), handle_action itself makes MainGame the active handler if and only
\* if the action was present and performed successfully; when the action is
\* absent or impossible, handle_action leaves the active handler as dispatch
\* left it.
C5_AutoReturn ==
    (last.event # "none" /\ ~last.exit /\ last.on \in AskUserFamily) =>
        /\ ("MainGameEventHandler" \in Range(last.calls)) <=> (last.performed = "ok")
        /\ last.performed = "ok" => handler = "MainGame"
        /\ last.performed # "ok" => handler = last.dispatched

\* a drop succeeded in the drop menu, which left the menu open itself
C5_Witness ==
    /\ last.on = "InventoryDrop"
    /\ last.dispatched = "InventoryDrop"
    /\ last.performed = "ok"
    /\ handler = "MainGame"

\* ---------------------------------------------------------------------
\* C6: in an inventory handler, a key-down whose offset from "a" is index:
\* with 0 <= index <= 26 and index < inventory size, the handler's item
\* callback gets the item at that index in insertion order ("a" is item 0);
\* with 0 <= index <= 26 and index >= inventory size, exactly one
\* "Invalid entry" message is logged, no action is produced and the handler
\* stays; any other key falls through to the AskUser default.
C6_InventoryKeys ==
    [][\A h \in InventoryFamily, sym \in Keys :
          KeyStep(h, sym) =>
              LET index == sym - K_a IN
              IF 0 <= index /\ index <= 26 /\ index < Len(inventory)
              THEN last'.action =
                      (IF h = "InventoryActivate"
                       THEN ItemAction(inventory[index + 1])
                       ELSE DropItem(inventory[index + 1]))
              ELSE IF 0 <= index /\ index <= 26
              THEN /\ messages' = Append(messages, "Invalid entry")
                   /\ last'.action = NoAction
                   /\ handler' = h
              ELSE /\ messages' = messages
                   /\ last'.action = NoAction
                   /\ handler' = IF sym \in MODIFIER_KEYS THEN h ELSE "MainGame"]_vars

\* "b" picked the second of two items in the drop menu
C6_Witness ==
    /\ last.on = "InventoryDrop"
    /\ last.sym = K_b
    /\ last.performed = "impossible"
    /\ Len(inventory) = 2
    /\ last.action = DropItem(inventory[2])
    /\ inventory[2] < inventory[1]

\* ---------------------------------------------------------------------
\* C7 (as claimed): in a SelectIndex handler a movement key moves the cursor
\* by the key's direction times the product of the factors of the modifier
\* groups held in event.mod (5 for either shift, 10 for either ctrl, 20 for
\* either alt), then clamps; shift+ctrl is 50.
HeldFactor(mod) ==
    (IF BitAnd(mod, KMOD_LSHIFT + KMOD_RSHIFT) # 0 THEN 5 ELSE 1)
    * (IF BitAnd(mod, KMOD_LCTRL + KMOD_RCTRL) # 0 THEN 10 ELSE 1)
    * (IF BitAnd(mod, KMOD_LALT + KMOD_RALT) # 0 THEN 20 ELSE 1)

C7_ModifiersMultiply ==
    [][\A sym \in Keys \cap DOMAIN MOVE_KEYS, mod \in Mods :
          (handler \in SelectIndexFamily /\ KeyDown(sym, mod)) =>
              mouse_location' =
                  <<Clamp(mouse_location[1] + MOVE_KEYS[sym][1] * HeldFactor(mod),
                          0, width - 1),
                    Clamp(mouse_location[2] + MOVE_KEYS[sym][2] * HeldFactor(mod),
                          0, height - 1)>>]_vars

\* ---------------------------------------------------------------------
\* C8: engine.mouse_location is inside the map in every reachable state,
\* 0 <= x <= width-1 and 0 <= y <= height-1, whatever mouse-motion events
\* (in or out of bounds), SelectIndex constructions and SelectIndex movement
\* keys with modifiers occur; the player is inside the map too.
C8_CursorInMap ==
    /\ 0 <= mouse_location[1] /\ mouse_location[1] <= width - 1
    /\ 0 <= mouse_location[2] /\ mouse_location[2] <= height - 1
    /\ 0 <= player[1] /\ player[1] <= width - 1
    /\ 0 <= player[2] /\ player[2] <= height - 1

\* a diagonal movement key left the look cursor in the far corner
C8_Witness ==
    /\ handler = "Look"
    /\ last.on = "Look"
    /\ last.sym = K_PAGEDOWN
    /\ width >= 3
    /\ mouse_location = <<width - 1, height - 1>>
    /\ player = <<0, 0>>

\* ---------------------------------------------------------------------
\* C9: at every step of generate_dungeon, whatever the random choices, no
\* two accepted rooms overlap under the closed-interval test; rooms that
\* merely share an edge are never both accepted.
C9_RoomsDisjoint ==
    \A i, j \in DOMAIN rooms :
        i # j =>
            ~(/\ rooms[i].x1 <= rooms[j].x2
              /\ rooms[i].x2 >= rooms[j].x1
              /\ rooms[i].y1 <= rooms[j].y2
              /\ rooms[i].y2 >= rooms[j].y1)

\* one attempt was rejected and two rooms stand one column apart
C9_Witness ==
    /\ gen_pc = "done"
    /\ attempt = Len(rooms) + 1
    /\ Len(rooms) = 2
    /\ rooms[2].x1 = rooms[1].x2 + 1
    /\ rooms[2].y1 <= rooms[1].y2
    /\ rooms[2].y2 >= rooms[1].y1

\* ---------------------------------------------------------------------
\* C10: when generate_dungeon returns, whatever the random choices, every
\* floor cell is connected to the first accepted room's center by a chain of
\* horizontally or vertically adjacent floor cells, and so is every accepted
\* room's center.
Adjacent(c, d) == Abs(c[1] - d[1]) + Abs(c[2] - d[2]) = 1

\* the cells a chain of adjacent floor cells links to the cells of S
RECURSIVE Linked(_)
Linked(S) ==
    LET more == {c \in floor \ S : \E d \in S : Adjacent(c, d)} IN
    IF more = {} THEN S ELSE Linked(S \cup more)

C10_FloorConnected ==
    (gen_pc = "done" /\ rooms # <<>>) =>
        LET reached == Linked({center(rooms[1])}) IN
        /\ floor \subseteq reached
        /\ \A i \in DOMAIN rooms : center(rooms[i]) \in reached

\* three rooms were dug, joined by tunnels that turn a corner
C10_Witness ==
    /\ gen_pc = "done"
    /\ Len(rooms) = 3
    /\ Len(tunnels) = 2
    /\ \A i \in 1..2 :
          /\ center(rooms[i])[1] # center(rooms[i + 1])[1]
          /\ center(rooms[i])[2] # center(rooms[i + 1])[2]
    /\ \E i \in 1..3 : inner(rooms[i]) # {}

\* ---------------------------------------------------------------------
\* C11: for every start and end and either outcome of the coin flip, the
\* cells tunnel_between yields begin at start, end at end, pass through the
\* corner (end.x, start.y) or (start.x, end.y), and consecutive cells are
\* equal or differ by exactly 1 in exactly one coordinate; up to the corner
\* the cells lie on one axis-aligned line, and from the corner on another.
StepOrSame(c, d) ==
    \/ c = d
    \/ c[1] = d[1] /\ Abs(c[2] - d[2]) = 1
    \/ c[2] = d[2] /\ Abs(c[1] - d[1]) = 1

C11_TunnelIsLPath ==
    tb_cells # <<>> =>
        LET n == Len(tb_cells) IN
        /\ tb_cells[1] = tb_start
        /\ tb_cells[n] = tb_end
        /\ \A i \in 1..(n - 1) : StepOrSame(tb_cells[i], tb_cells[i + 1])
        /\ \E k \in 1..n :
              \/ /\ tb_cells[k] = <<tb_end[1], tb_start[2]>>
                 /\ \A i \in 1..k : tb_cells[i][2] = tb_start[2]
                 /\ \A i \in k..n : tb_cells[i][1] = tb_end[1]
              \/ /\ tb_cells[k] = <<tb_start[1], tb_end[2]>>
                 /\ \A i \in 1..k : tb_cells[i][1] = tb_start[1]
                 /\ \A i \in k..n : tb_cells[i][2] = tb_end[2]

\* a vertical-then-horizontal tunnel across the grid, going left and down
C11_Witness ==
    /\ tb_start = <<TunnelSpan, 0>>
    /\ tb_end = <<0, 2>>
    /\ Len(tb_cells) = TunnelSpan + 4
    /\ tb_cells[3] = <<TunnelSpan, 2>>
    /\ tb_cells[4] = <<TunnelSpan, 2>>
    /\ tb_cells[5] = <<TunnelSpan - 1, 2>>

\* ---------------------------------------------------------------------
\* C12: generate_dungeon(max_rooms=1, room_min_size=4, room_max_size=4,
\* map_width=20, map_height=20, player) returns with exactly one accepted
\* room, of width 4 and height 4, whose rectangle lies inside the grid; the
\* player is at the room's center, the truncated midpoint (x1 + 2, y1 + 2);
\* no tunnel was carved and the floor cells are exactly the room's interior.
C12_SingleRoomScenario ==
    (params = ScenarioParams /\ gen_pc = "done") =>
        /\ Len(rooms) = 1
        /\ rooms[1].x2 - rooms[1].x1 = 4
        /\ rooms[1].y2 - rooms[1].y1 = 4
        /\ 0 <= rooms[1].x1 /\ rooms[1].x2 <= params.map_width - 1
        /\ 0 <= rooms[1].y1 /\ rooms[1].y2 <= params.map_height - 1
        /\ spawn = <<rooms[1].x1 + 2, rooms[1].y1 + 2>>
        /\ tunnels = <<>>
        /\ floor = {c \in (0..(params.map_width - 1)) \X (0..(params.map_height - 1)) :
                       /\ rooms[1].x1 < c[1] /\ c[1] < rooms[1].x2
                       /\ rooms[1].y1 < c[2] /\ c[2] < rooms[1].y2}

\* the call returned with its room in the far corner of the grid
C12_Witness ==
    /\ params = ScenarioParams
    /\ gen_pc = "done"
    /\ Len(rooms) = 1
    /\ rooms[1] = RectangularRoom(15, 15, 4, 4)
    /\ spawn = <<17, 17>>
    /\ Cardinality(floor) = 9

\* ---------------------------------------------------------------------
\* C13: in MainGame a key-down maps as follows and nothing else happens: a
\* movement key yields a bump action toward its (dx, dy); a wait key a wait
\* action; "g" a pickup action; escape terminates the program; "v", "i",
\* "d", "/" make HistoryViewer, InventoryActivate, InventoryDrop, Look the
\* active handler and yield no action, so no turn elapses (Look starts with
\* the cursor on the player); every other key yields no action and leaves
\* MainGame active with nothing changed.
\* the step ran no action: nothing performed, no call made, no turn, and the
\* log, the player and the inventory are as before
NoTurn ==
    /\ last'.action = NoAction
    /\ last'.performed = "none"
    /\ last'.calls = <<>>
    /\ last'.turn = FALSE
    /\ UNCHANGED <<messages, player, inventory>>

Consumed(h, sym) ==
    \/ h \in InventoryFamily /\ 0 <= sym - K_a /\ sym - K_a <= 26
    \/ h \in SelectIndexFamily /\ sym \in DOMAIN MOVE_KEYS \cup CONFIRM_KEYS

C14_AskUserExit ==
    [][/\ (handler \in AskUserFamily /\ last'.event = "keydown"
                /\ ~Consumed(handler, last'.sym)) =>
             /\ ~last'.exit
             /\ NoTurn
             /\ mouse_location' = mouse_location
             /\ handler' =
                  IF last'.sym \in {K_LSHIFT, K_RSHIFT, K_LCTRL, K_RCTRL,
                                    K_LALT, K_RALT}
                  THEN handler ELSE "MainGame"
       /\ (handler \in AskUserFamily /\ last'.event = "mousebuttondown") =>
             /\ ~last'.exit
             /\ NoTurn
             /\ mouse_location' = mouse_location
             /\ handler' = "MainGame"]_vars

\* a modifier key alone left the activate menu open, with an item in it
C14_Witness ==
    /\ last.on = "InventoryActivate"
    /\ last.event = "keydown"
    /\ last.sym = K_RALT
    /\ handler = "InventoryActivate"
    /\ Len(inventory) = 1

\* ---------------------------------------------------------------------
\* C15: a quit event raises program termination whichever handler is active
\* (MainGame, InventoryActivate, InventoryDrop, Look, HistoryViewer,
\* GameOver): no action is produced, no enemy turn is processed and no other
\* state changes.
C15_QuitTerminates ==
    [][last'.event = "quit" =>
          /\ last'.on = handler
          /\ last'.exit
          /\ ~running'
          /\ NoTurn
          /\ UNCHANGED <<handler, viewer, mouse_location, world_items, width,
                         height>>]_vars

\* the quit event ended the program from the game-over screen
C15_Witness ==
    /\ last.event = "quit"
    /\ last.on = "GameOver"
    /\ handler = "GameOver"
    /\ last.exit
    /\ ~running

\* ---------------------------------------------------------------------
\* C16: when a present action performs successfully, handle_action calls
\* the enemy-turn processing exactly once, then the field-of-view recompute
\* exactly once, both after the action's perform, appends no message itself
\* and reports that a turn elapsed; when the action is absent, none of
\* perform, enemy-turn processing and field-of-view recompute happens.
Times(calls, name) == Cardinality({i \in DOMAIN calls : calls[i] = name})

C16_SuccessfulTurn ==
    [][/\ last'.performed = "ok" =>
             /\ last'.action # NoAction
             /\ Len(last'.calls) >= 3
             /\ SubSeq(last'.calls, 1, 3) =
                    <<"perform", "handle_enemy_turns", "update_fov">>
             /\ Times(last'.calls, "perform") = 1
             /\ Times(last'.calls, "handle_enemy_turns") = 1
             /\ Times(last'.calls, "update_fov") = 1
             /\ Times(last'.calls, "add_message") = 0
             /\ messages' = messages
             /\ last'.turn = TRUE
       /\ (last'.event # "none" /\ last'.action = NoAction) =>
             /\ last'.performed = "none"
             /\ last'.calls = <<>>
             /\ last'.turn = FALSE
             /\ UNCHANGED <<player, inventory>>]_vars

\* the player picked up a second item and a turn elapsed
C16_Witness ==
    /\ last.on = "MainGame"
    /\ last.action = PickupAction
    /\ last.performed = "ok"
    /\ last.calls = <<"perform", "handle_enemy_turns", "update_fov">>
    /\ last.turn
    /\ Len(inventory) = 2
    /\ handler = "MainGame"

\* ---------------------------------------------------------------------
\* C17: in a SelectIndex handler (Look), a movement key-down with any
\* modifiers changes only the cursor location: it produces no action,
\* triggers no enemy-turn processing or field-of-view recompute, appends no
\* message and leaves the active handler unchanged.
C17_LookMoveFrame ==
    [][(handler \in SelectIndexFamily /\ last'.event = "keydown"
            /\ last'.sym \in DOMAIN MOVE_KEYS) =>
          /\ ~last'.exit
          /\ NoTurn
          /\ last'.dispatched = handler
          /\ UNCHANGED <<handler, viewer, running, world_items, width,
                         height>>]_vars

\* a movement key took the look cursor two cells away from the player
C17_Witness ==
    /\ handler = "Look"
    /\ last.on = "Look"
    /\ last.event = "keydown"
    /\ last.sym = K_RIGHT
    /\ player = <<0, 1>>
    /\ mouse_location = <<2, 1>>

\* ---------------------------------------------------------------------
\* C18: GameOver is absorbing: once GameOver is the active handler, no
\* key-down, mouse-button-down or mouse-motion event changes the active
\* handler or produces an action; the only ways out are escape and the quit
\* event, and both terminate the program.
C18_GameOverAbsorbing ==
    [][handler = "GameOver" =>
          /\ handler' = "GameOver"
          /\ last'.on = "GameOver"
          /\ last'.dispatched = "GameOver"
          /\ NoTurn
          /\ ~running' <=>
                \/ last'.event = "quit"
                \/ last'.event = "keydown" /\ last'.sym = K_ESCAPE]_vars

\* the return key was pressed on the game-over screen, to no effect
C18_Witness ==
    /\ handler = "GameOver"
    /\ last.on = "GameOver"
    /\ last.event = "keydown"
    /\ last.sym = K_RETURN
    /\ running

\* ---------------------------------------------------------------------
\* C19 (as claimed): after generate_dungeon, whatever the random choices,
\* every floor cell (x, y), carved by a room interior or by a tunnel, keeps
\* a 1-cell wall margin from the grid edge: 1 <= x <= map_width - 2 and
\* 1 <= y <= map_height - 2 (the parameters satisfy
\* 1 <= room_min_size <= room_max_size < min(map_width, map_height)).
ParamsInRange ==
    /\ 1 <= params.room_min_size
    /\ params.room_min_size <= params.room_max_size
    /\ params.room_max_size < Min(params.map_width, params.map_height)

C19_FloorKeepsMargin ==
    (gen_pc = "done" /\ ParamsInRange) =>
        \A c \in floor :
            /\ 1 <= c[1] /\ c[1] <= params.map_width - 2
            /\ 1 <= c[2] /\ c[2] <= params.map_height - 2

\* ---------------------------------------------------------------------
\* C20 (as claimed): when generate_dungeon returns, whatever the random
\* choices (the parameters in the same range, max_rooms >= 1), the player's
\* position is the first accepted room's center, the truncated midpoint of
\* its rectangle, and that cell is a floor cell.
C20_SpawnOnFloor ==
    (gen_pc = "done" /\ ParamsInRange /\ params.max_rooms >= 1) =>
        /\ rooms # <<>>
        /\ spawn = <<(rooms[1].x1 + rooms[1].x2) \div 2,
                     (rooms[1].y1 + rooms[1].y2) \div 2>>
        /\ spawn \in floor

====
